---------------------------- MODULE Spec2Model ----------------------------
(***************************************************************************)
(* The lesson generation handler (Deno.serve callback) of pro-lesson, in   *)
(* its two variants: the one that fetches images before the point-update   *)
(* (src/supabase/functions/generate-lesson/index.ts) and the plain one     *)
(* (src/unnamed/part_000).  Several invocations run concurrently against   *)
(* one lessons table; every await of the handler is a step of its own.     *)
(*                                                                         *)
(* Strings that the code measures or cuts (outline, title, messages) are   *)
(* sequences of one-character strings.  Lesson ids and the generated text  *)
(* are only compared and tested for emptiness.                             *)
(***************************************************************************)
EXTENDS Integers, Sequences, FiniteSets, TLC

(* ------------------------------ bounds --------------------------------- *)
\* number of handler invocations that may be in flight together
NumHandlers == 2
\* how far the long outline exceeds the title prefix
LongExtra == 2

\* number of point-updates that land while a page is open
MaxWrites == 2

Handlers == 1..NumHandlers

(* ------------------------- program constants --------------------------- *)
\* outline.substring(0, 100)
TitleMax == 100
\* errorMessage.substring(0, 200)
ErrorMessageMax == 200

(* ------------------------------ strings -------------------------------- *)
Rep(c, n) == [i \in 1..n |-> c]

Min(a, b) == IF a < b THEN a ELSE b

\* String.prototype.substring(0, n)
Prefix(s, n) == SubSeq(s, 1, Min(Len(s), n))

RECURSIVE TrimStart(_)
TrimStart(s) == IF s # <<>> /\ Head(s) = " " THEN TrimStart(Tail(s)) ELSE s

RECURSIVE TrimEnd(_)
TrimEnd(s) ==
  IF s # <<>> /\ s[Len(s)] = " " THEN TrimEnd(SubSeq(s, 1, Len(s) - 1)) ELSE s

\* String.prototype.trim()
Trim(s) == TrimEnd(TrimStart(s))

\* the values JavaScript treats as absent; both are falsy
NoId == "<undefined>"
NoText == <<"<undefined>">>
NullText == <<"<null>">>

\* !!x for a string-or-absent value
TruthyId(x) == x \notin {NoId, ""}
TruthyText(x) == x \notin {NoText, NullText, <<>>}

(* ------------------------------ inputs --------------------------------- *)
LessonIds == {"l1", "l2"}
OutlineShort == <<"a", " ", "b">>
OutlinePadded == <<" ", "a", "b", " ">>
\* longer than the title prefix, with a blank just inside the cut
OutlineLong == Rep("a", TitleMax - 1) \o <<" ">> \o Rep("b", LongExtra)

ObjectBody(id, o) == [kind |-> "object", lessonId |-> id, outline |-> o]
OtherBody(k) == [kind |-> k, lessonId |-> NoId, outline |-> NoText]

\* request bodies: no body at all, text that is not JSON, the JSON value
\* null, and objects with each field absent, empty or set
InvalidBodies ==
  {OtherBody("none"), OtherBody("invalid"), OtherBody("null"),
   ObjectBody(NoId, NoText), ObjectBody(NoId, OutlineShort),
   ObjectBody("", OutlineShort), ObjectBody("l1", NoText),
   ObjectBody("l1", <<>>)}

ValidBodies ==
  {ObjectBody("l1", OutlineShort), ObjectBody("l1", OutlineLong),
   ObjectBody("l2", OutlinePadded)}

Bodies == InvalidBodies \cup ValidBodies

NewRequest(m, b) == [method |-> m, body |-> b, bodyUsed |-> FALSE]

\* the requests that arrive: any body by POST, and pre-flight probes
Requests ==
  {NewRequest("POST", b) : b \in Bodies}
    \cup {NewRequest("OPTIONS", b) :
            b \in {OtherBody("none"), ObjectBody("l1", OutlineShort)}}

\* the text the model returns to invocation h (distinct per invocation)
GenText(h) == <<"T", ToString(h)>>

ImageList == <<"u1", "u2">>

\* Error.message of the faults; only the lengths and the tags matter
MsgRequired == Rep("r", 33)     \* lessonId and outline are required
MsgNoKey == Rep("k", 29)        \* GEMINI_API_KEY not configured
MsgGemini == Rep("g", 17)       \* Gemini error: 503
MsgNoContent == Rep("c", 20)    \* No content generated
MsgUnknown == Rep("u", 13)      \* Unknown error
MsgSyntax == Rep("s", 30)       \* SyntaxError of JSON.parse
MsgType == Rep("t", 40)         \* TypeError of destructuring null
MsgConsumed == Rep("b", 22)     \* TypeError: Body already consumed.
MsgNetwork == Rep("n", ErrorMessageMax + 1)  \* a long network error

(* ------------------------------- state --------------------------------- *)
VARIABLES
  variant,  \* which handler is deployed: "images" (index.ts) or "plain" (part_000)
  env,      \* Deno.env: which API keys are configured
  rows,     \* the lessons table, by id
  req,      \* per invocation: the Request (method, body, bodyUsed)
  pc,       \* per invocation: the await the handler is at
  loc,      \* per invocation: the handler's local variables
  resp,     \* per invocation: the Response returned, NoResponse before
  page,     \* LessonPage: params.id, mounted, and the lesson/loading/error state
  fetches,  \* LessonPage: the fetchLesson calls, by order of issue
  chan,     \* the realtime channel of the page: subscribed, pending UPDATE events
  writes,   \* number of point-updates the store applied while a page is modelled
  view      \* LessonPage: what the last render returned

pageVars == <<page, fetches, chan, writes, view>>

vars == <<variant, env, rows, req, pc, loc, resp, page, fetches, chan, writes, view>>

NoResponse == [status |-> 0, kind |-> "-", lessonId |-> NoId, error |-> NoText]
NoRequest == NewRequest("-", OtherBody("none"))

InitLoc ==
  [lessonId |-> NoId, outline |-> NoText, generatedContent |-> NoText,
   title |-> NoText, imageUrls |-> <<>>, updateError |-> FALSE,
   errorMessage |-> NoText, errLessonId |-> NoId,
   gemini |-> "-", pexels |-> "-", store |-> "-",
   geminiCalls |-> 0, pexelsCalls |-> 0, contentUpdates |-> 0,
   errorUpdates |-> 0]

\* a row as its creator inserts it before the handler runs; the store's
\* URL and service key are taken to be configured (createClient succeeds)
NewRow(id) ==
  [id |-> id, outline |-> OutlineShort, title |-> NullText,
   content |-> NullText, status |-> "generating", error_message |-> NullText,
   image_urls |-> <<>>, created_at |-> "t0"]

(* ------------------------- the page's state --------------------------- *)
\* useState<Lesson | null>(null)
NullLesson ==
  [id |-> "<null>", outline |-> NoText, title |-> NullText,
   content |-> NullText, status |-> "<null>", error_message |-> NullText,
   image_urls |-> <<>>, created_at |-> "<null>"]

\* useState<string | null>(null)
NoError == "<null>"

\* the page before it is mounted: lesson null, loading true, error null
InitPage ==
  [id |-> "<none>", mounted |-> FALSE, lesson |-> NullLesson,
   loading |-> TRUE, error |-> NoError]

\* one fetchLesson call per mount and per notification
FetchIds == 1..(MaxWrites + 1)

\* a fetchLesson call not made yet; made, it is "sent", then "read" (the
\* store has run the select), then "done" (the await has resumed)
NoFetch == [state |-> "none", outcome |-> "-", data |-> NullLesson]

InitChan == [subscribed |-> FALSE, pending |-> 0, lastMissed |-> FALSE]

\* nothing rendered yet
Unrendered == {"<unrendered>"}

\* the route parameter: the id of a row, or of no row
PageIds == {"l1", "zz"}

\* the deployment, the table and the invocations before any request
HandlerInit ==
  /\ variant \in {"images", "plain"}
  /\ env \in [geminiKey : BOOLEAN, pexelsKey : BOOLEAN]
  /\ variant = "plain" => ~env.pexelsKey
  /\ rows = [id \in LessonIds |-> NewRow(id)]
  /\ req = [h \in Handlers |-> NoRequest]
  /\ pc = [h \in Handlers |-> "idle"]
  /\ loc = [h \in Handlers |-> InitLoc]
  /\ resp = [h \in Handlers |-> NoResponse]

Init ==
  /\ HandlerInit
  /\ page = InitPage
  /\ fetches = [k \in FetchIds |-> NoFetch]
  /\ chan = InitChan
  /\ writes = 0
  /\ view = Unrendered

(* ---------------------------- the Request ------------------------------ *)
\* a Request whose body could be read any number of times
ReqJsonRereadable(r) ==
  IF r.body.kind \in {"none", "invalid"}
    THEN [ok |-> FALSE, value |-> r.body, error |-> MsgSyntax]
  ELSE [ok |-> TRUE, value |-> r.body, error |-> NoText]

\* Request.json(): a body that was read once is unusable and the promise
\* rejects; a request without body, or with text that is not JSON, rejects
\* with a SyntaxError.  ok = FALSE is a rejection.
ReqJson(r) ==
  IF r.body.kind = "none" THEN [ok |-> FALSE, value |-> r.body, error |-> MsgSyntax]
  ELSE IF r.bodyUsed
    THEN [ok |-> FALSE, value |-> r.body, error |-> MsgConsumed]
  ELSE IF r.body.kind = "invalid"
    THEN [ok |-> FALSE, value |-> r.body, error |-> MsgSyntax]
  ELSE [ok |-> TRUE, value |-> r.body, error |-> NoText]

\* reading marks a body that exists as used
Consumed(r) == [r EXCEPT !.bodyUsed = (r.body.kind # "none")]

\* outline.substring(0, 100), not trimmed
TitleUntrimmed(outline) == Prefix(outline, TitleMax)

\* outline.substring(0, 100).trim()
TitleOf(outline) == Trim(Prefix(outline, TitleMax))

\* errorMessage.substring(0, 200)
TruncatedMessage(m) == Prefix(m, ErrorMessageMax)

\* a throw that sends a first Gemini error back to the fetch
ThrowRetrying(h, l, msg) ==
  /\ loc' = [loc EXCEPT ![h] = [l EXCEPT !.errorMessage = msg]]
  /\ pc' = [pc EXCEPT ![h] =
              IF msg = MsgGemini /\ l.geminiCalls = 1 THEN "gemini" ELSE "catch"]

\* a throw that no catch block receives: the invocation ends unanswered
ThrowUncaught(h, l, msg) ==
  /\ loc' = [loc EXCEPT ![h] = [l EXCEPT !.errorMessage = msg]]
  /\ pc' = [pc EXCEPT ![h] = "crashed"]

\* throw: control passes to the catch block with errorMessage set
Throw(h, l, msg) ==
  /\ loc' = [loc EXCEPT ![h] = [l EXCEPT !.errorMessage = msg]]
  /\ pc' = [pc EXCEPT ![h] = "catch"]

Respond(h, r) ==
  /\ resp' = [resp EXCEPT ![h] = r]
  /\ pc' = [pc EXCEPT ![h] = "done"]

(* ----------------------------- the handler ----------------------------- *)
\* a request arrives
Receive(h) ==
  /\ pc[h] = "idle"
  /\ \E r \in Requests : req' = [req EXCEPT ![h] = r]
  /\ pc' = [pc EXCEPT ![h] = "start"]
  /\ UNCHANGED <<variant, env, rows, loc, resp>>
  /\ UNCHANGED pageVars

\* a pre-flight test that also wants the request to have no body
IsPreflightWithoutBody(r) == r.method = "OPTIONS" /\ r.body.kind = "none"

\* req.method === 'OPTIONS'
IsPreflight(r) == r.method = "OPTIONS"

\* if (req.method === 'OPTIONS') return new Response(null, {status: 200})
Preflight(h) ==
  /\ pc[h] = "start"
  /\ IsPreflight(req[h])
  /\ Respond(h, [NoResponse EXCEPT !.status = 200, !.kind = "none"])
  /\ UNCHANGED <<variant, env, rows, req, loc>>
  /\ UNCHANGED pageVars

\* const { lessonId, outline } = await req.json()
ReadBody(h) ==
  /\ pc[h] = "start"
  /\ ~IsPreflight(req[h])
  /\ LET j == ReqJson(req[h]) IN
       /\ req' = [req EXCEPT ![h] = Consumed(req[h])]
       /\ IF ~j.ok THEN Throw(h, loc[h], j.error)
          ELSE IF j.value.kind = "null" THEN Throw(h, loc[h], MsgType)
          ELSE /\ loc' = [loc EXCEPT ![h].lessonId = j.value.lessonId,
                                     ![h].outline = j.value.outline]
               /\ pc' = [pc EXCEPT ![h] = "validate"]
  /\ UNCHANGED <<variant, env, rows, resp>>
  /\ UNCHANGED pageVars

\* !lessonId && !outline
MissingBoth(lessonId, outline) == ~TruthyId(lessonId) /\ ~TruthyText(outline)

\* !lessonId || !outline
MissingInput(lessonId, outline) == ~TruthyId(lessonId) \/ ~TruthyText(outline)

\* if (!lessonId || !outline) return 400
Validate(h) ==
  /\ pc[h] = "validate"
  /\ IF MissingInput(loc[h].lessonId, loc[h].outline)
       THEN Respond(h, [NoResponse EXCEPT !.status = 400, !.kind = "error",
                                          !.error = MsgRequired])
       ELSE /\ pc' = [pc EXCEPT ![h] = "checkKey"]
            /\ UNCHANGED resp
  /\ UNCHANGED <<variant, env, rows, req, loc>>
  /\ UNCHANGED pageVars

\* !pexelsKey
PexelsKeyMissing(e) == ~e.pexelsKey

\* !geminiKey
KeyMissing(e) == ~e.geminiKey

\* if (!geminiKey) throw new Error('GEMINI_API_KEY not configured')
CheckKey(h) ==
  /\ pc[h] = "checkKey"
  /\ IF KeyMissing(env) THEN Throw(h, loc[h], MsgNoKey)
       ELSE /\ pc' = [pc EXCEPT ![h] = "gemini"]
            /\ UNCHANGED loc
  /\ UNCHANGED <<variant, env, rows, req, resp>>
  /\ UNCHANGED pageVars

\* what the text-generation upstream may do with one request: the fetch
\* rejects, a non-2xx status, a 2xx body without the text part, one with
\* an empty text part, one with text
GeminiOutcomes == {"network", "non2xx", "notext", "emptytext", "text"}

\* what the handler saw of the upstream: no response, response.ok or not
GeminiStatus(outcome) ==
  IF outcome = "network" THEN "rejected"
  ELSE IF outcome = "non2xx" THEN "non2xx"
  ELSE "2xx"

\* geminiData.candidates?.[0]?.content?.parts?.[0]?.text
ExtractText(h, outcome) ==
  IF outcome = "text" THEN GenText(h)
  ELSE IF outcome = "emptytext" THEN <<>>
  ELSE NoText

\* the image search entered whether or not a key is configured
FetchesImagesAlways(v, e) == v = "images"

\* if (pexelsKey), in the handler that has the image search
FetchesImages(v, e) == v = "images" /\ e.pexelsKey

\* generatedContent === undefined
ContentUndefined(text) == text = NoText

\* !generatedContent
NoContent(text) == ~TruthyText(text)

\* const geminiResponse = await fetch(...) up to const title = ...
CallGemini(h) ==
  /\ pc[h] = "gemini"
  /\ \E outcome \in GeminiOutcomes :
       LET l == [loc[h] EXCEPT !.gemini = GeminiStatus(outcome),
                               !.geminiCalls = loc[h].geminiCalls + 1]
           text == ExtractText(h, outcome)
       IN
         IF outcome = "network" THEN Throw(h, l, MsgNetwork)
         ELSE IF outcome = "non2xx" THEN Throw(h, l, MsgGemini)
         ELSE IF NoContent(text) THEN Throw(h, l, MsgNoContent)
         ELSE /\ loc' = [loc EXCEPT ![h] =
                           [l EXCEPT !.generatedContent = text,
                                     !.title = TitleOf(l.outline)]]
              /\ pc' = [pc EXCEPT ![h] =
                          IF FetchesImages(variant, env)
                            THEN "pexels" ELSE "update"]
  /\ UNCHANGED <<variant, env, rows, req, resp>>
  /\ UNCHANGED pageVars

\* what the image-search upstream may do with one request
PexelsOutcomes == {"network", "non2xx", "nophotos", "photos"}

\* fetchImagesFromPexels without its try/catch: a rejected fetch propagates
FetchImagesUncaught(outcome) ==
  IF outcome = "network" THEN [threw |-> TRUE, urls |-> <<>>]
  ELSE IF outcome = "photos" THEN [threw |-> FALSE, urls |-> ImageList]
  ELSE [threw |-> FALSE, urls |-> <<>>]

\* fetchImagesFromPexels: a non-2xx status, a response without photos and
\* every exception (caught) yield []; the promise never rejects
FetchImagesFromPexels(outcome) ==
  IF outcome = "photos" THEN [threw |-> FALSE, urls |-> ImageList]
  ELSE [threw |-> FALSE, urls |-> <<>>]

\* if (pexelsKey) imageUrls = await fetchImagesFromPexels(...)
FetchImages(h) ==
  /\ pc[h] = "pexels"
  /\ \E outcome \in PexelsOutcomes :
       LET r == FetchImagesFromPexels(outcome)
           l == [loc[h] EXCEPT !.pexels = IF outcome = "photos" THEN "photos"
                                          ELSE "failed",
                               !.pexelsCalls = loc[h].pexelsCalls + 1]
       IN
         IF r.threw THEN Throw(h, l, MsgNetwork)
         ELSE /\ loc' = [loc EXCEPT ![h] = [l EXCEPT !.imageUrls = r.urls]]
              /\ pc' = [pc EXCEPT ![h] = "update"]
  /\ UNCHANGED <<variant, env, rows, req, resp>>
  /\ UNCHANGED pageVars

\* an update that leaves image_urls to a later one
ContentPatchNoImages(row, l) ==
  [row EXCEPT !.title = l.title, !.content = l.generatedContent,
              !.status = "generated"]

\* an update that keeps a title the row already has
ContentPatchKeepTitle(row, l) ==
  [row EXCEPT !.title = IF @ = NullText THEN l.title ELSE @,
              !.content = l.generatedContent,
              !.image_urls = IF variant = "images" THEN l.imageUrls ELSE @,
              !.status = "generated"]

\* an update of title and content that leaves the status alone
ContentPatchNoStatus(row, l) ==
  [row EXCEPT !.title = l.title, !.content = l.generatedContent]

\* the fields of .update({title, content, [image_urls,] status: 'generated'})
ContentPatch(row, l) ==
  [row EXCEPT !.title = l.title,
              !.content = l.generatedContent,
              !.image_urls = IF variant = "images" THEN l.imageUrls ELSE @,
              !.status = "generated"]

\* the fields of .update({status: 'error', error_message})
ErrorPatch(row, l) ==
  [row EXCEPT !.status = "error",
              !.error_message = TruncatedMessage(l.errorMessage)]

\* an update without its .eq('id', id) filter
UpdateAllRows(id, patched) == patched

\* .eq('id', id): the point-update touches the rows with that id
\* (none when no row carries it)
UpdateWhereId(id, patched) ==
  [r \in LessonIds |-> IF rows[r].id = id THEN patched[r] ELSE rows[r]]

\* the store acknowledges a point-update or reports an error
StoreOutcomes == {"ok", "error"}

\* const { error: updateError } = await supabase.from('lessons').update(...)
UpdateLesson(h) ==
  /\ pc[h] = "update"
  /\ \E outcome \in StoreOutcomes :
       /\ loc' = [loc EXCEPT ![h].store = outcome,
                             ![h].updateError = (outcome = "error"),
                             ![h].contentUpdates = loc[h].contentUpdates + 1]
       /\ rows' = IF outcome = "ok"
                    THEN UpdateWhereId(loc[h].lessonId,
                           [r \in LessonIds |-> ContentPatch(rows[r], loc[h])])
                    ELSE rows
  /\ pc' = [pc EXCEPT ![h] = "updated"]
  /\ UNCHANGED <<variant, env, req, resp>>
  /\ UNCHANGED pageVars

\* error instanceof Error ? error.message : 'Unknown error'; the store's
\* error is a plain object
MessageOfUpdateError == MsgUnknown

\* the update's error ignored
UpdateErrorIgnored(l) == FALSE

\* if (updateError)
UpdateFailed(l) == l.updateError

\* if (updateError) throw updateError; return { success: true, lessonId }
AfterUpdate(h) ==
  /\ pc[h] = "updated"
  /\ IF UpdateFailed(loc[h])
       THEN /\ Throw(h, loc[h], MessageOfUpdateError)
            /\ UNCHANGED resp
       ELSE /\ Respond(h, [NoResponse EXCEPT !.status = 200, !.kind = "success",
                                             !.lessonId = loc[h].lessonId])
            /\ UNCHANGED loc
  /\ UNCHANGED <<variant, env, rows, req>>
  /\ UNCHANGED pageVars

\* const body = await req.json().catch(() => ({ lessonId: null }));
\* const lessonId = body?.lessonId
BodyLessonId(r) ==
  LET j == ReqJson(r) IN
    IF j.ok /\ j.value.kind = "object" THEN j.value.lessonId ELSE NoId

\* a 500 response that carries the message of the failed second read
FailureResponseInner(l) ==
  [NoResponse EXCEPT !.status = 500, !.kind = "error", !.error = MsgConsumed]

\* new Response(JSON.stringify({ error: errorMessage }), { status: 500 })
FailureResponse(l) ==
  [NoResponse EXCEPT !.status = 500, !.kind = "error", !.error = l.errorMessage]

\* the catch block: read the lessonId from the request again; if there is
\* one, point-update the row to status error (the outcome of that update
\* is not looked at); return 500 { error: errorMessage }
FailurePath(h) ==
  /\ pc[h] = "catch"
  /\ LET id == BodyLessonId(req[h])
         l == [loc[h] EXCEPT !.errLessonId = id]
     IN
       /\ req' = [req EXCEPT ![h] = Consumed(req[h])]
       /\ IF TruthyId(id)
            THEN \E outcome \in StoreOutcomes :
                   /\ loc' = [loc EXCEPT ![h] =
                                [l EXCEPT !.errorUpdates = l.errorUpdates + 1]]
                   /\ rows' = IF outcome = "ok"
                                THEN UpdateWhereId(id,
                                       [r \in LessonIds |-> ErrorPatch(rows[r], l)])
                                ELSE rows
            ELSE /\ loc' = [loc EXCEPT ![h] = l]
                 /\ UNCHANGED rows
  /\ Respond(h, FailureResponse(loc[h]))
  /\ UNCHANGED <<variant, env>>
  /\ UNCHANGED pageVars

Next ==
  \E h \in Handlers :
    \/ Receive(h)
    \/ Preflight(h)
    \/ ReadBody(h)
    \/ Validate(h)
    \/ CheckKey(h)
    \/ CallGemini(h)
    \/ FetchImages(h)
    \/ UpdateLesson(h)
    \/ AfterUpdate(h)
    \/ FailurePath(h)

Spec == Init /\ [][Next]_vars

\* the steps of invocation h after its request has arrived
Run(h) ==
  \/ Preflight(h)
  \/ ReadBody(h)
  \/ Validate(h)
  \/ CheckKey(h)
  \/ CallGemini(h)
  \/ FetchImages(h)
  \/ UpdateLesson(h)
  \/ AfterUpdate(h)
  \/ FailurePath(h)



(* ------------------------------ the page ------------------------------- *)
\* a render that shows the completed view whatever the content
ViewIgnoringContent(pg) ==
  IF pg.loading THEN {"skeleton"}
  ELSE IF pg.error # NoError \/ pg.lesson = NullLesson THEN {"errorBanner"}
  ELSE (IF pg.lesson.status = "generating" THEN {"inProgress"} ELSE {})
         \cup (IF pg.lesson.status = "error" THEN {"failure"} ELSE {})
         \cup (IF pg.lesson.status = "generated" THEN {"completed"} ELSE {})
         \cup (IF pg.lesson.status = "generated" /\ ~TruthyText(pg.lesson.content)
                 THEN {"noContent"} ELSE {})

\* what LessonPage returns: the skeleton, the error banner, or the card
\* with the alerts and the content its conditions select
View(pg) ==
  IF pg.loading THEN {"skeleton"}
  ELSE IF pg.error # NoError \/ pg.lesson = NullLesson THEN {"errorBanner"}
  ELSE (IF pg.lesson.status = "generating" THEN {"inProgress"} ELSE {})
         \cup (IF pg.lesson.status = "error" THEN {"failure"} ELSE {})
         \cup (IF pg.lesson.status = "generated" /\ TruthyText(pg.lesson.content)
                 THEN {"completed"} ELSE {})
         \cup (IF pg.lesson.status = "generated" /\ ~TruthyText(pg.lesson.content)
                 THEN {"noContent"} ELSE {})

\* a query that also puts the row back to generating
SelectAndReset(rs, id) ==
  [rows |-> [r \in DOMAIN rs |->
               IF rs[r].id = id THEN [rs[r] EXCEPT !.status = "generating"]
               ELSE rs[r]],
   data |-> IF \E r \in DOMAIN rs : rs[r].id = id
              THEN rs[CHOOSE r \in DOMAIN rs : rs[r].id = id]
              ELSE NullLesson]

\* supabase.from('lessons').select('*').eq('id', id).maybeSingle(): the
\* table as the query leaves it, and the row found or null
SelectById(rs, id) ==
  [rows |-> rs,
   data |-> IF \E r \in DOMAIN rs : rs[r].id = id
              THEN rs[CHOOSE r \in DOMAIN rs : rs[r].id = id]
              ELSE NullLesson]

\* how a select may end: data, { error }, or an exception
FetchOutcomes == {"ok", "error", "throw"}

\* fetchLesson after its await: the state setters it calls
AfterFetch(pg, f) ==
  IF f.outcome = "throw"
    THEN [pg EXCEPT !.error = "An unexpected error occurred", !.loading = FALSE]
  ELSE IF f.outcome = "error"
    THEN [pg EXCEPT !.error = "Failed to load lesson", !.loading = FALSE]
  ELSE IF f.data = NullLesson
    THEN [pg EXCEPT !.error = "Lesson not found", !.loading = FALSE]
  ELSE [pg EXCEPT !.lesson = f.data, !.error = NoError, !.loading = FALSE]

\* the next fetchLesson call
NextFetch == CHOOSE k \in FetchIds :
  fetches[k].state = "none" /\ \A j \in FetchIds : j < k => fetches[j].state # "none"

\* useEffect on mount: fetchLesson(), then channel(...).on(...).subscribe()
Mount ==
  /\ ~page.mounted
  /\ \E id \in PageIds : page' = [page EXCEPT !.mounted = TRUE, !.id = id]
  /\ fetches' = [fetches EXCEPT ![1].state = "sent"]
  /\ view' = View(page')
  /\ UNCHANGED <<variant, env, rows, req, pc, loc, resp, chan, writes>>

\* the channel has joined: UPDATE events of the row are delivered from now
Subscribe ==
  /\ page.mounted
  /\ ~chan.subscribed
  /\ chan' = [chan EXCEPT !.subscribed = TRUE]
  /\ UNCHANGED <<variant, env, rows, req, pc, loc, resp, page, fetches, writes, view>>

\* the store applies a handler's point-update to row id and emits the
\* UPDATE event to the page's channel when that is subscribed to the row
StoreWrite(id) ==
  /\ writes < MaxWrites
  /\ \E urls \in {<<>>, ImageList} :
       LET l == [InitLoc EXCEPT !.lessonId = id,
                                !.title = TitleOf(rows[id].outline),
                                !.generatedContent = GenText(writes + 1),
                                !.imageUrls = urls]
       IN rows' = UpdateWhereId(id, [r \in LessonIds |-> ContentPatch(rows[r], l)])
  /\ writes' = writes + 1
  /\ chan' = IF page.mounted /\ page.id = id
               THEN IF chan.subscribed
                      THEN [chan EXCEPT !.pending = @ + 1, !.lastMissed = FALSE]
                      ELSE [chan EXCEPT !.lastMissed = TRUE]
               ELSE chan
  /\ UNCHANGED <<variant, env, req, pc, loc, resp, page, fetches, view>>

\* the channel's callback: () => { fetchLesson() }
Notify ==
  /\ chan.pending > 0
  /\ chan' = [chan EXCEPT !.pending = @ - 1]
  /\ fetches' = [fetches EXCEPT ![NextFetch].state = "sent"]
  /\ UNCHANGED <<variant, env, rows, req, pc, loc, resp, page, writes, view>>

\* the store runs the select of fetchLesson call k
FetchRead(k) ==
  /\ fetches[k].state = "sent"
  /\ \E outcome \in FetchOutcomes :
       LET q == SelectById(rows, page.id) IN
         /\ rows' = q.rows
         /\ fetches' = [fetches EXCEPT ![k] =
                          [state |-> "read", outcome |-> outcome,
                           data |-> IF outcome = "ok" THEN q.data ELSE NullLesson]]
  /\ UNCHANGED <<variant, env, req, pc, loc, resp, page, chan, writes, view>>

\* the await of fetchLesson call k resumes; the page renders again
FetchComplete(k) ==
  /\ fetches[k].state = "read"
  /\ page' = AfterFetch(page, fetches[k])
  /\ fetches' = [fetches EXCEPT ![k].state = "done"]
  /\ view' = View(page')
  /\ UNCHANGED <<variant, env, rows, req, pc, loc, resp, chan, writes>>

\* the page open on a table that a deployed handler writes to
PageInit ==
  /\ Init
  /\ env.geminiKey
  /\ env.pexelsKey <=> variant = "images"

PageNext ==
  \/ Mount
  \/ Subscribe
  \/ \E id \in LessonIds : StoreWrite(id)
  \/ Notify
  \/ \E k \in FetchIds : FetchRead(k)
  \/ \E k \in FetchIds : FetchComplete(k)

PageSpec == PageInit /\ [][PageNext]_vars

(* ----------------------- one invocation, fairly run -------------------- *)
\* invocation h is the only one under way; what other invocations write
\* reaches the table as the store's updates (StoreWrite)
Alone(h) == \A g \in Handlers \ {h} : pc[g] = "idle"

\* a request arrives while no other invocation is under way
ReceiveAlone(h) == Alone(h) /\ Receive(h)

LiveNext ==
  \/ \E h \in Handlers : ReceiveAlone(h)
  \/ \E h \in Handlers : Run(h)
  \/ \E id \in LessonIds : StoreWrite(id)

\* the runtime resumes an async function whenever the promise it awaits has
\* settled, and every awaited call (req.json, fetch, the store's update)
\* settles with one of its outcomes
LiveSpec == Init /\ [][LiveNext]_vars /\ \A h \in Handlers : WF_vars(Run(h))

\* the lesson states a render may find: no lesson, or a row in each status
\* with content and images present or not
RenderLessons ==
  {NullLesson} \cup
    {[NewRow("l1") EXCEPT !.status = st, !.content = c, !.image_urls = u,
                          !.error_message = m] :
       st \in {"generating", "generated", "error"},
       c \in {NullText, <<>>, GenText(1)},
       u \in {<<>>, ImageList},
       m \in {NullText, MsgGemini}}

RenderErrors ==
  {NoError, "Failed to load lesson", "Lesson not found",
   "An unexpected error occurred"}

\* every combination of loading, error and lesson
RenderInit ==
  /\ HandlerInit
  /\ env.geminiKey /\ env.pexelsKey
  /\ page \in {[id |-> "l1", mounted |-> TRUE, lesson |-> l, loading |-> b,
                error |-> e] :
                 l \in RenderLessons, b \in BOOLEAN, e \in RenderErrors}
  /\ fetches = [k \in FetchIds |-> NoFetch]
  /\ chan = InitChan
  /\ writes = 0
  /\ view = Unrendered

\* LessonPage is called with that state and returns its view
Render ==
  /\ view = Unrendered
  /\ view' = View(page)
  /\ UNCHANGED <<variant, env, rows, req, pc, loc, resp, page, fetches, chan, writes>>

RenderSpec == RenderInit /\ [][Render]_vars

(* ------------------------------ properties ----------------------------- *)
Done(h) == pc[h] = "done"

\* invocation h serves a generation request (not a pre-flight probe)
Generation(h) == req[h].method = "POST"

\* the body is a JSON object that lacks lessonId or outline
LacksField(b) ==
  b.kind = "object" /\ (b.lessonId \in {NoId, ""} \/ b.outline \in {NoText, <<>>})

\* the body is a JSON object with lessonId and outline present
HasFields(b) ==
  b.kind = "object" /\ b.lessonId \notin {NoId, ""} /\ b.outline \notin {NoText, <<>>}

NoUpstreamCall(h) == loc[h].geminiCalls = 0 /\ loc[h].pexelsCalls = 0
NoStoreWrite(h) == loc[h].contentUpdates = 0 /\ loc[h].errorUpdates = 0

\* invocation h takes the step from pc value a to pc value b
Step(h, a, b) == pc[h] = a /\ pc'[h] = b

\* the text-generation call of h returned a non-empty first text part
TextGenerated(h) == loc[h].generatedContent \notin {NoText, NullText, <<>>}

\* the first 100 characters of each outline, trimmed, written out by hand
ExpectedTitle(o) ==
  IF o = OutlineShort THEN <<"a", " ", "b">>
  ELSE IF o = OutlinePadded THEN <<"a", "b">>
  ELSE Rep("a", 99)

\* C1: a generation request whose body lacks lessonId or outline (missing
\* or empty) is answered 400, and its invocation issues no upstream call
\* and no store write.
C1_MissingInputIs400 ==
  \A h \in Handlers :
    (Generation(h) /\ LacksField(req[h].body)) =>
      /\ NoUpstreamCall(h)
      /\ NoStoreWrite(h)
      /\ pc[h] \in {"start", "validate", "done"}
      /\ Done(h) => (resp[h].status = 400 /\ resp[h].kind = "error")

C1_Witness ==
  \E h \in Handlers :
    /\ Generation(h) /\ LacksField(req[h].body) /\ Done(h)
    /\ resp[h].status = 400
    /\ req[h].body.lessonId = "l1"

\* C2: when the text-generation upstream answered non-2xx to a request
\* with lessonId and outline, the handler finishes with response 500 and
\* the row of that id has status error and a non-empty error_message.
C2_ErrorRowOnUpstreamFailure ==
  [][\A h \in Handlers :
       (pc[h] # "done" /\ pc'[h] = "done" /\ Generation(h)
          /\ HasFields(req[h].body) /\ loc[h].gemini = "non2xx") =>
         /\ resp'[h].status = 500
         /\ rows'[req[h].body.lessonId].status = "error"
         /\ rows'[req[h].body.lessonId].error_message \notin {NullText, NoText, <<>>}]_vars

\* C3: when the text-generation call returned text and the store applies
\* the point-update, the row of the request's lessonId becomes generated
\* with content the extracted text and title the first 100 characters of
\* the outline, trimmed.
C3_SuccessWritesGenerated ==
  /\ [][\A h \in Handlers :
          (Step(h, "update", "updated") /\ loc'[h].store = "ok") =>
            LET row == rows'[req[h].body.lessonId] IN
              /\ row.status = "generated"
              /\ row.content = GenText(h)
              /\ row.title = ExpectedTitle(req[h].body.outline)
              /\ Len(row.title) <= 100]_vars
  /\ [](\A h \in Handlers :
          (TextGenerated(h) /\ loc[h].gemini = "2xx") =>
            \/ pc[h] \in {"pexels", "update"}
            \/ loc[h].contentUpdates = 1)

C3_Witness ==
  \E h \in Handlers :
    /\ loc[h].store = "ok"
    /\ req[h].body.outline = OutlineLong
    /\ rows[req[h].body.lessonId].status = "generated"
    /\ rows[req[h].body.lessonId].title = Rep("a", 99)
    /\ rows[req[h].body.lessonId].content = GenText(h)

\* C4: a failed image search (network error, non-2xx, no usable photos)
\* raises nothing: the handler goes on to the point-update, which, when
\* the store applies it, makes the row generated with the content set and
\* image_urls empty, and the caller then gets the success response.
C4_ImageFailureIsHarmless ==
  /\ [][\A h \in Handlers :
          /\ (pc[h] = "pexels" /\ pc'[h] # "pexels") =>
               (pc'[h] = "update" /\ loc'[h].errorMessage = NoText)
          /\ (Step(h, "update", "updated") /\ loc[h].pexels = "failed"
                /\ loc'[h].store = "ok") =>
               LET row == rows'[req[h].body.lessonId] IN
                 /\ row.status = "generated"
                 /\ row.content = GenText(h)
                 /\ row.image_urls = <<>>]_vars
  /\ [](\A h \in Handlers :
          (Done(h) /\ loc[h].pexels = "failed" /\ loc[h].store = "ok") =>
            (resp[h].status = 200 /\ resp[h].kind = "success"))

C4_Witness ==
  \E h \in Handlers :
    /\ Done(h) /\ loc[h].pexels = "failed" /\ loc[h].store = "ok"
    /\ resp[h].status = 200
    /\ rows[req[h].body.lessonId].status = "generated"
    /\ rows[req[h].body.lessonId].image_urls = <<>>

C6_GeneratedHasContent ==
  \A id \in LessonIds :
    rows[id].status = "generated" =>
      rows[id].content \notin {NullText, NoText, <<>>}

C6_Witness ==
  \E id \in LessonIds, h \in Handlers :
    /\ rows[id].status = "generated"
    /\ rows[id].content = GenText(h)

\* C7: title, content and status generated are only ever written together,
\* by the one point-update of an invocation whose text-generation call
\* returned text; the failure path leaves title and content as they were.
C7_NoPartialContent ==
  [][/\ \A id \in LessonIds :
          (\/ rows'[id].title # rows[id].title
           \/ rows'[id].content # rows[id].content
           \/ (rows'[id].status = "generated" /\ rows[id].status # "generated")) =>
            \E h \in Handlers :
              /\ Step(h, "update", "updated")
              /\ loc[h].lessonId = id
              /\ TextGenerated(h)
              /\ rows'[id].title = loc[h].title
              /\ rows'[id].content = loc[h].generatedContent
              /\ rows'[id].status = "generated"
     /\ \A h \in Handlers :
          (pc[h] = "catch" /\ pc'[h] # "catch") =>
            \A id \in LessonIds :
              /\ rows'[id].title = rows[id].title
              /\ rows'[id].content = rows[id].content]_vars

\* a failed text-generation call has gone through the failure path and the
\* row of its request still has neither title nor content
C7_Witness ==
  \E h \in Handlers :
    /\ Done(h) /\ HasFields(req[h].body)
    /\ loc[h].geminiCalls = 1 /\ ~TextGenerated(h)
    /\ rows[req[h].body.lessonId].title = NullText
    /\ rows[req[h].body.lessonId].content = NullText
    /\ \E g \in Handlers : loc[g].store = "ok"

\* C8: the success response is given only after the text-generation call
\* returned text and the point-update was acknowledged; every other
\* generation request with lessonId and outline ends in 500.
C8_SuccessOnlyAfterAck ==
  \A h \in Handlers :
    /\ resp[h].kind = "success" =>
         /\ resp[h].status = 200
         /\ resp[h].lessonId = req[h].body.lessonId
         /\ TextGenerated(h)
         /\ loc[h].contentUpdates = 1
         /\ loc[h].store = "ok"
    /\ (Done(h) /\ Generation(h) /\ HasFields(req[h].body)) =>
         IF TextGenerated(h) /\ loc[h].store = "ok"
           THEN resp[h].status = 200 /\ resp[h].kind = "success"
           ELSE resp[h].status = 500 /\ resp[h].kind = "error"

C8_Witness ==
  \E h1, h2 \in Handlers :
    /\ resp[h1].kind = "success"
    /\ Done(h2) /\ HasFields(req[h2].body) /\ resp[h2].status = 500

\* C9: an invocation whose point-update returned an error goes through the
\* failure path, as after an upstream fault, and answers 500, never 200.
C9_UpdateErrorIs500 ==
  \A h \in Handlers :
    loc[h].store = "error" =>
      /\ pc[h] \in {"updated", "catch", "done"}
      /\ resp[h].status # 200
      /\ Done(h) =>
           /\ resp[h].status = 500
           /\ resp[h].kind = "error"
           /\ resp[h].error = loc[h].errorMessage
           /\ loc[h].errorMessage # NoText
           /\ req[h].bodyUsed

C9_Witness ==
  \E h \in Handlers :
    /\ Done(h) /\ loc[h].store = "error" /\ resp[h].status = 500
    /\ rows[req[h].body.lessonId].status = "generating"

\* C10: without a text-generation API key, a generation request with
\* lessonId and outline is answered 500 and its invocation issues no
\* text-generation request, no image-search request and no content update.
C10_NoKeyIs500 ==
  \A h \in Handlers :
    (Generation(h) /\ HasFields(req[h].body) /\ ~env.geminiKey) =>
      /\ NoUpstreamCall(h)
      /\ loc[h].contentUpdates = 0
      /\ \A id \in LessonIds : rows[id].status # "generated"
      /\ Done(h) => resp[h].status = 500

C10_Witness ==
  \E h \in Handlers :
    /\ Generation(h) /\ HasFields(req[h].body) /\ ~env.geminiKey
    /\ Done(h) /\ resp[h].status = 500 /\ env.pexelsKey

\* C11, as claimed: the update that makes a row generated leaves its
\* image_urls as they were, to be filled by a second update, also when the
\* image search of the request found photos.
C11_ImagesLagGenerated ==
  [][\A h \in Handlers :
       (Step(h, "update", "updated") /\ loc'[h].store = "ok"
          /\ loc[h].pexels = "photos") =>
         LET id == req[h].body.lessonId IN
           /\ rows'[id].status = "generated"
           /\ rows'[id].image_urls = rows[id].image_urls]_vars

\* C11, amended: image_urls is written only by the point-update that sets
\* status generated, which in the handler with the image search carries
\* the urls that invocation's search returned; a success response comes
\* after the image search, when one is made.
C11_ImagesWrittenWithGenerated ==
  /\ [][/\ \A h \in Handlers :
             (Step(h, "update", "updated") /\ loc'[h].store = "ok"
                /\ variant = "images") =>
               /\ rows'[req[h].body.lessonId].status = "generated"
               /\ rows'[req[h].body.lessonId].image_urls = loc[h].imageUrls
        /\ \A id \in LessonIds :
             rows'[id].image_urls # rows[id].image_urls =>
               /\ rows'[id].status = "generated"
               /\ \E h \in Handlers :
                    Step(h, "update", "updated") /\ loc[h].lessonId = id]_vars
  /\ [](\A h \in Handlers :
          (resp[h].kind = "success" /\ variant = "images" /\ env.pexelsKey) =>
            (loc[h].pexelsCalls = 1 /\ loc[h].pexels \in {"failed", "photos"}))

C11_Witness ==
  \E h \in Handlers :
    /\ Done(h) /\ resp[h].kind = "success" /\ loc[h].pexels = "photos"
    /\ rows[req[h].body.lessonId].status = "generated"
    /\ rows[req[h].body.lessonId].image_urls = ImageList

\* C12: each successful request for a lessonId makes its own point-update,
\* after which the row's title and content are that request's; a generated
\* row always holds the title and content of one and the same request.
C12_LastWriterWins ==
  /\ [][\A h \in Handlers :
          (Step(h, "update", "updated") /\ loc'[h].store = "ok") =>
            /\ loc'[h].contentUpdates = 1
            /\ rows'[req[h].body.lessonId].title = loc[h].title
            /\ rows'[req[h].body.lessonId].content = loc[h].generatedContent]_vars
  /\ [](\A id \in LessonIds :
          rows[id].status = "generated" =>
            \E h \in Handlers :
              /\ loc[h].store = "ok" /\ loc[h].lessonId = id
              /\ rows[id].title = loc[h].title
              /\ rows[id].content = loc[h].generatedContent)

C12_Witness ==
  \E h1, h2 \in Handlers :
    /\ h1 # h2
    /\ loc[h1].lessonId = loc[h2].lessonId
    /\ loc[h1].store = "ok" /\ loc[h2].store = "ok"
    /\ Done(h1) /\ Done(h2)
    /\ loc[h1].title # loc[h2].title
    /\ rows[loc[h2].lessonId].title = loc[h2].title
    /\ rows[loc[h2].lessonId].content = GenText(h2)

\* C13: a pre-flight OPTIONS request is answered 200 without a body,
\* whatever its body and the configuration; its invocation does not read
\* the body, calls no upstream and writes nothing.
C13_PreflightIs200 ==
  \A h \in Handlers :
    req[h].method = "OPTIONS" =>
      /\ ~req[h].bodyUsed
      /\ NoUpstreamCall(h)
      /\ NoStoreWrite(h)
      /\ pc[h] \in {"start", "done"}
      /\ Done(h) => resp[h] = [NoResponse EXCEPT !.status = 200, !.kind = "none"]

C13_Witness ==
  \E h \in Handlers :
    /\ req[h].method = "OPTIONS" /\ HasFields(req[h].body)
    /\ Done(h) /\ resp[h].status = 200 /\ ~env.geminiKey

\* C14: without an image-search key no image-search request is made and
\* image_urls stays empty, while a request whose text was generated and
\* whose update was applied ends with a generated row and the success
\* response.
C14_NoPexelsKey ==
  ~env.pexelsKey =>
    /\ \A id \in LessonIds : rows[id].image_urls = <<>>
    /\ \A h \in Handlers :
         /\ loc[h].pexelsCalls = 0
         /\ (Done(h) /\ TextGenerated(h) /\ loc[h].store = "ok") =>
              /\ resp[h].status = 200 /\ resp[h].kind = "success"
              /\ rows[req[h].body.lessonId].status = "generated"
              /\ rows[req[h].body.lessonId].content \notin {NullText, NoText, <<>>}

C14_Witness ==
  \E h \in Handlers :
    /\ ~env.pexelsKey /\ variant = "images"
    /\ Done(h) /\ resp[h].kind = "success"
    /\ rows[req[h].body.lessonId].status = "generated"

\* C15: an invocation issues at most one text-generation request, at most
\* one image-search request and at most one content point-update.
C15_NoRetry ==
  \A h \in Handlers :
    /\ loc[h].geminiCalls <= 1
    /\ loc[h].pexelsCalls <= 1
    /\ loc[h].contentUpdates <= 1

\* an invocation that made each of its calls once and failed at the last
C15_Witness ==
  \E h \in Handlers :
    /\ Done(h) /\ resp[h].status = 500
    /\ loc[h].geminiCalls = 1 /\ loc[h].pexelsCalls = 1
    /\ loc[h].contentUpdates = 1

\* the message of the fault that sent invocation h to the catch block
OriginalFault(h) ==
  IF loc[h].store = "error" THEN MsgUnknown
  ELSE IF loc[h].gemini = "rejected" THEN MsgNetwork
  ELSE IF loc[h].gemini = "non2xx" THEN MsgGemini
  ELSE IF loc[h].gemini = "2xx" THEN MsgNoContent
  ELSE IF req[h].body.kind = "null" THEN MsgType
  ELSE IF req[h].body.kind \in {"none", "invalid"} THEN MsgSyntax
  ELSE MsgNoKey

\* C16: the failure path is silent about its own failures: the response
\* is 500 with the message of the original fault, whatever came of reading
\* the body again and of the status update, and the failure path adds no
\* upstream call and no content update to those made before the fault.
C16_FailurePathSilent ==
  \A h \in Handlers :
    (Done(h) /\ resp[h].status \notin {200, 400}) =>
      /\ resp[h].status = 500
      /\ resp[h].kind = "error"
      /\ resp[h].error = OriginalFault(h)
      /\ loc[h].errorUpdates <= 1
      /\ loc[h].geminiCalls = (IF loc[h].gemini = "-" THEN 0 ELSE 1)
      /\ loc[h].pexelsCalls = (IF loc[h].pexels = "-" THEN 0 ELSE 1)
      /\ loc[h].contentUpdates = (IF loc[h].store = "-" THEN 0 ELSE 1)

\* the second read of a body that carries a lessonId has failed, and the
\* caller has the upstream's fault
C16_Witness ==
  \E h \in Handlers :
    /\ Done(h) /\ resp[h].status = 500
    /\ HasFields(req[h].body) /\ req[h].bodyUsed
    /\ loc[h].errLessonId = NoId
    /\ resp[h].error = MsgGemini

\* C17: a step changes at most the row whose id is the lessonId of the
\* invocation taking it, and never that row's id, outline or created_at;
\* the failure path leaves title, content and image_urls as they were.
C17_OnlyOwnRow ==
  [][/\ \A id \in LessonIds :
          /\ rows'[id].id = rows[id].id
          /\ rows'[id].outline = rows[id].outline
          /\ rows'[id].created_at = rows[id].created_at
          /\ rows'[id] # rows[id] =>
               \E h \in Handlers : pc'[h] # pc[h] /\ req[h].body.lessonId = id
     /\ \A h \in Handlers :
          (pc[h] = "catch" /\ pc'[h] # "catch") =>
            \A id \in LessonIds :
              /\ rows'[id].title = rows[id].title
              /\ rows'[id].content = rows[id].content
              /\ rows'[id].image_urls = rows[id].image_urls]_vars

\* one row was written by its request while the other row is as created
C17_Witness ==
  \E h \in Handlers :
    /\ Done(h) /\ loc[h].store = "ok" /\ loc[h].lessonId = "l2"
    /\ rows["l2"].status = "generated"
    /\ rows["l1"] = NewRow("l1")
    /\ \E g \in Handlers : Done(g) /\ resp[g].status = 500 /\ loc[g].lessonId = "l1"

\* no fetchLesson call is under way and those made have returned the row
FetchesSettled ==
  /\ \A k \in FetchIds : fetches[k].state \in {"none", "done"}
  /\ \A k \in FetchIds : fetches[k].state = "done" => fetches[k].outcome = "ok"
  /\ fetches[1].state = "done"

\* C18: once the row's last update has been notified, every notification
\* has been handled and every fetch has completed successfully, the lesson
\* on display is the stored row (no earlier fetch's response has left an
\* older state of the row on display).
C18_DisplayFollowsRow ==
  (/\ page.mounted /\ page.id \in LessonIds
   /\ chan.subscribed /\ chan.pending = 0 /\ ~chan.lastMissed
   /\ FetchesSettled) =>
    (page.lesson = rows[page.id] /\ page.error = NoError)

\* C19: a render returns exactly one view: the skeleton when loading;
\* otherwise the error banner when a fetch error is set or there is no
\* lesson; otherwise the in-progress banner iff the status is generating,
\* the failure banner iff it is error, and the completed view iff it is
\* generated with content present.
C19_OneViewPerState ==
  view # Unrendered =>
    /\ Cardinality(view) = 1
    /\ page.loading => view = {"skeleton"}
    /\ (~page.loading /\ (page.error # NoError \/ page.lesson = NullLesson)) =>
         view = {"errorBanner"}
    /\ (~page.loading /\ page.error = NoError /\ page.lesson # NullLesson) =>
         /\ "inProgress" \in view <=> page.lesson.status = "generating"
         /\ "failure" \in view <=> page.lesson.status = "error"
         /\ "completed" \in view <=>
              (page.lesson.status = "generated"
                 /\ page.lesson.content \notin {NullText, NoText, <<>>})
         /\ "skeleton" \notin view /\ "errorBanner" \notin view

\* a generated row without content has been rendered
C19_Witness ==
  /\ view = {"noContent"}
  /\ page.lesson.status = "generated"
  /\ page.lesson.content = <<>>
  /\ ~page.loading

\* C20: the page writes nothing: every step that changes a row is a
\* point-update applied by the store for a handler, and leaves the page's
\* own state as it was; mounting, notifications and fetches change no row.
C20_PageWritesNothing ==
  [][rows' # rows =>
       /\ writes' = writes + 1
       /\ page' = page /\ fetches' = fetches /\ view' = view]_vars

\* the page was mounted, has handled a notification and completed two
\* fetches, and the row it does not show is as created
C20_Witness ==
  /\ page.mounted /\ page.id = "l1"
  /\ writes = 1 /\ chan.pending = 0 /\ ~chan.lastMissed /\ chan.subscribed
  /\ fetches[1].state = "done" /\ fetches[2].state = "done"
  /\ rows["l2"] = NewRow("l2")
  /\ page.lesson = rows["l1"]

\* the statuses the handler passes to new Response
ResponseStatuses == {200, 400, 500}

\* C21: every invocation ends with exactly one response, of status 200,
\* 400 or 500: an invocation that has received its request (whatever its
\* body, the configuration, the upstream and store outcomes, or a failure
\* in the failure path) eventually returns; it has a response exactly
\* when it has returned, and a response once returned never changes.
C21_AlwaysOneResponse ==
  /\ [](\A h \in Handlers :
          /\ Done(h) <=> resp[h] # NoResponse
          /\ Done(h) => resp[h].status \in ResponseStatuses)
  /\ [][\A h \in Handlers : resp[h] # NoResponse => resp'[h] = resp[h]]_vars
  /\ \A h \in Handlers : (pc[h] = "start") ~> Done(h)

\* an invocation whose body was no JSON has returned 500 after the second
\* read of the body failed inside the failure path as well
C21_Witness ==
  \E h \in Handlers :
    /\ Done(h)
    /\ req[h].body.kind = "invalid" /\ req[h].bodyUsed
    /\ ~ReqJson(req[h]).ok
    /\ loc[h].errLessonId = NoId
    /\ resp[h].status = 500 /\ resp[h].error = MsgSyntax

=============================================================================
